---- MODULE Spec2Model ----
(***************************************************************************)
(* The e-learning platform: courses, their ordered modules and contents,   *)
(* the four item tables, and the request handlers of courses/views.py and  *)
(* students/views.py acting on one shared relational store.                *)
(*                                                                         *)
(* A request handled by a view is one action: the view's dispatch, its     *)
(* lookups, every save it makes and the response it returns.  The store    *)
(* runs in autocommit mode, so a write made before an uncaught exception   *)
(* stays written.  The response of the last request is kept in "last".     *)
(***************************************************************************)
EXTENDS Integers, Sequences, FiniteSets, TLC

\* ------------------------------------------------------------ bounds
MaxCourses == 2        \* course ids ever handed out
MaxModules == 2        \* module ids ever handed out
MaxContents == 2       \* content ids ever handed out
MaxItems == 2          \* ids ever handed out by each item table
MaxOrder == 2          \* largest order value stored or submitted
MaxEntries == 2        \* members of a submitted {id: order} mapping

\* ------------------------------------------------------------ accounts
\* The auth tables are not written by any view modelled here: two
\* instructors holding the course permissions, one account without them,
\* and the anonymous requester.
Instructors == {"ann", "bob"}
Users == Instructors \cup {"sam"}
Anonymous == "anonymous"

CoursePerms ==
    {"courses.view_course", "courses.add_course",
     "courses.change_course", "courses.delete_course"}

Permissions(u) == IF u \in Instructors THEN CoursePerms ELSE {}

\* ------------------------------------------------------------ inputs
ContentModels == {"text", "video", "image", "file"}   \* the item tables
ModelNames == {"text", "image", "quiz"}               \* <model_name> of the URL
Methods == {"GET", "POST"}
CourseIds == 1..MaxCourses
ModuleIds == 1..MaxModules
ContentIds == 1..MaxContents
ItemIds == 1..MaxItems
Orders == 0..MaxOrder

\* getattr(model_instance, "order") of an instance on which no order was set
None == -1

VARIABLES
    course,     \* Course rows:  id -> [owner, rev]
    module,     \* Module rows:  id -> [course, order]
    content,    \* Content rows: id -> [module, ctype, oid, order]
    item,       \* rows of the item tables: <<model, id>> -> [owner, rev]
    nextId,     \* the auto-increment counters of Course, Module, Content
    students,   \* the (user, course) memberships
    pending,    \* saves between OrderField.pre_save and the INSERT
    last        \* the last request and its response

vars == <<course, module, content, item, nextId, students, pending, last>>

Workers == {"w1", "w2"}
Idle == [busy |-> FALSE, kind |-> "", scope |-> 0, order |-> 0, oid |-> 0,
         seen |-> 0]

NoRequest == [op |-> "", user |-> "", id |-> 0, resp |-> "", obj |-> 0]

Empty == [x \in {} |-> 0]

Init ==
    /\ course = Empty
    /\ module = Empty
    /\ content = Empty
    /\ item = Empty
    /\ nextId = [course |-> 1, module |-> 1, content |-> 1]
    /\ students = {}
    /\ pending = [w \in Workers |-> Idle]
    /\ last = NoRequest

\* the request (the view, the requester, the id in its URL) and the response:
\* its kind and the id of the object it shows or has created
Respond(op, u, id, resp, obj) ==
    last' = [op |-> op, user |-> u, id |-> id, resp |-> resp, obj |-> obj]

\* ------------------------------------------------------------ querysets
\* the queryset without the owner filter
OwnerQuerysetUnfiltered(u) == DOMAIN course

\* qs.filter(owner=self.request.user)
OwnerQueryset(u) == {c \in DOMAIN course : course[c].owner = u}

\* Module.objects.filter(id=id) without the owner lookup
ModulesOfAnyone(u) == DOMAIN module

\* Module.objects.filter(course__owner=request.user)
ModulesOf(u) == {m \in DOMAIN module : course[module[m].course].owner = u}

\* Content.objects.filter(module__course__owner=request.user)
ContentsOf(u) ==
    {k \in DOMAIN content : course[module[content[k].module].course].owner = u}

\* on_delete=models.CASCADE, Module.course and Content.module
ModulesIn(cs) == {m \in DOMAIN module : module[m].course \in cs}
ContentsIn(ms) == {k \in DOMAIN content : content[k].module \in ms}

Restrict(f, S) == [x \in S |-> f[x]]

\* ------------------------------------------------------------ OrderField
Max(S) == CHOOSE x \in S : \A y \in S : y <= x

\* the orders of the rows sharing the instance's for_fields values
ModuleScope(c) == {module[m].order : m \in ModulesIn({c})}
ContentScope(m) == {content[k].order : k \in ContentsIn({m})}

\* pre_save numbering the new row by the count of its siblings
pre_save_count(cur, siblings) ==
    IF cur = None THEN Cardinality(siblings) ELSE cur

\* pre_save recomputing the order on every save
pre_save_always(cur, siblings) ==
    IF siblings = {} THEN 0 ELSE Max(siblings) + 1

\* OrderField.pre_save: cur is the instance's order, siblings the orders of
\* qs.filter(**query); qs.latest("order") raises ObjectDoesNotExist on none.
pre_save(cur, siblings) ==
    IF cur = None
    THEN IF siblings = {} THEN 0 ELSE Max(siblings) + 1
    ELSE cur

\* ------------------------------------------------------------ course views
has_perm(u, perm) == perm \in Permissions(u)

\* LoginRequiredMixin.dispatch, then PermissionRequiredMixin.dispatch
\* (OwnerCourseMixin's bases): the anonymous requester is redirected to the
\* login page, a logged-in one without the permission gets PermissionDenied.
AccessCheck(u, perm) ==
    IF u = Anonymous THEN "login"
    ELSE IF ~has_perm(u, perm) THEN "forbidden"
    ELSE "pass"

\* CourseCreateView: form_valid sets form.instance.owner = request.user
CourseCreate(u, valid) ==
    LET acc == AccessCheck(u, "courses.add_course") IN
    /\ IF acc # "pass"
       THEN /\ Respond("CourseCreate", u, 0, acc, 0)
            /\ UNCHANGED <<course, nextId>>
       ELSE IF ~valid
       THEN /\ Respond("CourseCreate", u, 0, "ok", 0)
            /\ UNCHANGED <<course, nextId>>
       ELSE /\ nextId.course <= MaxCourses
            /\ course' = course @@ (nextId.course :> [owner |-> u, rev |-> 0])
            /\ nextId' = [nextId EXCEPT !.course = @ + 1]
            /\ Respond("CourseCreate", u, 0, "redirect", nextId.course)
    /\ UNCHANGED <<module, content, item, students, pending>>

\* CourseUpdateView: get_object() looks pk up in OwnerMixin.get_queryset();
\* GET renders the form of the course, a valid POST saves it.
CourseUpdate(u, pk, method, valid) ==
    LET acc == AccessCheck(u, "courses.change_course") IN
    /\ IF acc # "pass"
       THEN /\ Respond("CourseUpdate", u, pk, acc, 0)
            /\ UNCHANGED course
       ELSE IF pk \notin OwnerQueryset(u)
       THEN /\ Respond("CourseUpdate", u, pk, "notfound", 0)
            /\ UNCHANGED course
       ELSE IF method = "GET" \/ ~valid
       THEN /\ Respond("CourseUpdate", u, pk, "ok", pk)
            /\ UNCHANGED course
       ELSE /\ course' = [course EXCEPT ![pk] = [owner |-> u, rev |-> 1]]
            /\ Respond("CourseUpdate", u, pk, "redirect", 0)
    /\ UNCHANGED <<module, content, item, nextId, students, pending>>

\* CourseDeleteView: GET renders the confirmation page of the course, POST
\* deletes it; its modules and their contents go with it (CASCADE), the
\* items the contents point to do not (a GenericForeignKey has no cascade).
CourseDelete(u, pk, method) ==
    LET acc == AccessCheck(u, "courses.delete_course") IN
    /\ IF acc # "pass"
       THEN /\ Respond("CourseDelete", u, pk, acc, 0)
            /\ UNCHANGED <<course, module, content>>
       ELSE IF pk \notin OwnerQueryset(u)
       THEN /\ Respond("CourseDelete", u, pk, "notfound", 0)
            /\ UNCHANGED <<course, module, content>>
       ELSE IF method = "GET"
       THEN /\ Respond("CourseDelete", u, pk, "ok", pk)
            /\ UNCHANGED <<course, module, content>>
       ELSE LET ms == ModulesIn({pk}) IN
            /\ course' = Restrict(course, DOMAIN course \ {pk})
            /\ module' = Restrict(module, DOMAIN module \ ms)
            /\ content' = Restrict(content, DOMAIN content \ ContentsIn(ms))
            /\ Respond("CourseDelete", u, pk, "redirect", 0)
    /\ UNCHANGED <<item, nextId, students, pending>>

\* ------------------------------------------------------------ modules
\* The formset of a course, as CourseModuleUpdateView documents it: it adds,
\* updates and deletes modules of that course.  One changed form per POST;
\* "id" names the module of an "edit" or "delete" form.
FormsetKinds == {"invalid", "add", "edit", "delete"}

\* Module(...).save() of a new row: every field's pre_save runs, then INSERT
InsertModule(c, order) ==
    /\ nextId.module <= MaxModules
    /\ pre_save(order, ModuleScope(c)) <= MaxOrder
    /\ module' = module @@ (nextId.module :>
                   [course |-> c, order |-> pre_save(order, ModuleScope(c))])
    /\ nextId' = [nextId EXCEPT !.module = @ + 1]

\* module.save() of a stored row: pre_save runs again, then UPDATE
UpdateModule(m) ==
    module' = [module EXCEPT ![m] =
                 [course |-> @.course,
                  order |-> pre_save(@.order, ModuleScope(@.course))]]

CourseModuleUpdate(u, pk, method, kind, id) ==
    /\ u \in Users
    /\ IF pk \notin {c \in DOMAIN course : course[c].owner = u}
       THEN /\ Respond("CourseModuleUpdate", u, pk, "notfound", 0)
            /\ UNCHANGED <<module, content, nextId>>
       ELSE IF method = "GET" \/ kind = "invalid"
                 \/ (kind \in {"edit", "delete"} /\ id \notin ModulesIn({pk}))
       THEN /\ Respond("CourseModuleUpdate", u, pk, "ok", 0)
            /\ UNCHANGED <<module, content, nextId>>
       ELSE /\ CASE kind = "add" ->
                     /\ InsertModule(pk, None)
                     /\ UNCHANGED content
                 [] kind = "edit" ->
                     /\ UpdateModule(id)
                     /\ UNCHANGED <<content, nextId>>
                 [] kind = "delete" ->
                     /\ module' = Restrict(module, DOMAIN module \ {id})
                     /\ content' = Restrict(content,
                                     DOMAIN content \ ContentsIn({id}))
                     /\ UNCHANGED nextId
            /\ Respond("CourseModuleUpdate", u, pk, "redirect",
                       IF kind = "add" THEN nextId.module ELSE 0)
    /\ UNCHANGED <<course, item, students, pending>>

\* Module(course=c, order=o).save() with the order given by the caller
ModuleSave(c, o) ==
    /\ c \in DOMAIN course
    /\ InsertModule(c, o)
    /\ Respond("ModuleSave", "", c, "saved", nextId.module)
    /\ UNCHANGED <<course, content, item, students, pending>>

\* ------------------------------------------------------------ contents
\* ContentCreateUpdateView.get_model: the model class, or None
NoModel == "None"
get_model(model_name) ==
    IF model_name \in {"text", "video", "image", "file"}
    THEN model_name
    ELSE NoModel

\* the id the item table of model t hands out next (no view deletes an item)
NextItemId(t) == Cardinality({k \in DOMAIN item : k[1] = t}) + 1

\* get_object_or_404(self.model, id=id, owner=request.user)
ItemsOf(t, u) == {k \in DOMAIN item : k[1] = t /\ item[k].owner = u}

\* Content.objects.create(module=m, item=obj): order is unset, pre_save
\* computes it, then INSERT
InsertContent(m, t, oid) ==
    /\ nextId.content <= MaxContents
    /\ pre_save(None, ContentScope(m)) <= MaxOrder
    /\ content' = content @@ (nextId.content :>
                    [module |-> m, ctype |-> t, oid |-> oid,
                     order |-> pre_save(None, ContentScope(m))])
    /\ nextId' = [nextId EXCEPT !.content = @ + 1]

\* dispatch, then get or post.  id = 0 is the URL without an item id.
\*  - dispatch: the module must lie in a course of the requester (404);
\*    with an id, get_object_or_404(None, ...) raises ValueError when
\*    get_model returned None, and else looks the item up (404).
\*  - get/post: get_form(None, ...) builds a ModelForm without a model
\*    class, whose constructor raises ValueError.
\*  - post: an invalid form leaves "obj" unbound, and "if not id" then
\*    evaluates Content.objects.create(..., item=obj): UnboundLocalError.
ContentCreateUpdate(u, module_id, model_name, id, method, valid) ==
    LET model == get_model(model_name)
        op == "ContentCreateUpdate"
    IN
    /\ u \in Users
    /\ IF module_id \notin ModulesOf(u)
       THEN /\ Respond(op, u, module_id, "notfound", 0)
            /\ UNCHANGED <<content, item, nextId>>
       ELSE IF model = NoModel
       THEN /\ Respond(op, u, module_id, "error", 0)
            /\ UNCHANGED <<content, item, nextId>>
       ELSE IF id # 0 /\ <<model, id>> \notin ItemsOf(model, u)
       THEN /\ Respond(op, u, module_id, "notfound", 0)
            /\ UNCHANGED <<content, item, nextId>>
       ELSE IF method = "GET"
       THEN /\ Respond(op, u, module_id, "ok", id)
            /\ UNCHANGED <<content, item, nextId>>
       ELSE IF id # 0
       THEN /\ item' = IF valid
                       THEN [item EXCEPT ![<<model, id>>] =
                               [owner |-> u, rev |-> 1]]
                       ELSE item
            /\ Respond(op, u, module_id, "ok", id)
            /\ UNCHANGED <<content, nextId>>
       ELSE IF ~valid
       THEN /\ Respond(op, u, module_id, "error", 0)
            /\ UNCHANGED <<content, item, nextId>>
       ELSE /\ NextItemId(model) <= MaxItems
            /\ item' = item @@ (<<model, NextItemId(model)>> :>
                                  [owner |-> u, rev |-> 0])
            /\ InsertContent(module_id, model, NextItemId(model))
            /\ Respond(op, u, module_id, "redirect", nextId.content)
    /\ UNCHANGED <<course, module, students, pending>>

\* ContentDeleteView.post: Content has no field "course", so the lookup
\* course__owner raises FieldError before any row is read; the two delete()
\* calls after it are never reached.
ContentLookupFields == {"id", "module", "content_type", "object_id", "order"}

ContentDelete(u, id) ==
    /\ u \in Users
    /\ IF "course" \notin ContentLookupFields
       THEN /\ Respond("ContentDelete", u, id, "error", 0)
            /\ UNCHANGED <<content, item>>
       ELSE IF id \notin ContentsOf(u)
       THEN /\ Respond("ContentDelete", u, id, "notfound", 0)
            /\ UNCHANGED <<content, item>>
       ELSE /\ item' = Restrict(item, DOMAIN item \
                                 {<<content[id].ctype, content[id].oid>>})
            /\ content' = Restrict(content, DOMAIN content \ {id})
            /\ Respond("ContentDelete", u, id, "redirect", 0)
    /\ UNCHANGED <<course, module, nextId, students, pending>>

\* ------------------------------------------------------------ reordering
\* A member name of the posted JSON object is text: the decimal text of a
\* number n, or text that is no number.  filter(id=<text>) converts it with
\* int(), which raises ValueError on the latter.
Keys(ids) == [numeric : {TRUE}, n : ids] \cup {[numeric |-> FALSE, n |-> 0]}
Entries(ids, orders) == [key : Keys(ids), order : orders]

\* request_json.items(): at most n members in document order, their names
\* distinct
Mappings(ids, orders, n) ==
    {mp \in UNION {[1..k -> Entries(ids, orders)] : k \in 0..n} :
        \A i, j \in DOMAIN mp : i # j => mp[i].key # mp[j].key}

\* the loop of ModuleOrderView.post / ContentOrderView.post over the members
\* from the i-th on: rows is the table so far, owned the ids the filter on
\* the requester's courses lets through.  An exception ends the loop and
\* keeps the updates already made.
RECURSIVE UpdateOrders(_, _, _, _)
UpdateOrders(rows, owned, mp, i) ==
    IF i > Len(mp) THEN [rows |-> rows, raised |-> FALSE]
    ELSE IF ~mp[i].key.numeric THEN [rows |-> rows, raised |-> TRUE]
    ELSE UpdateOrders(
            IF mp[i].key.n \in owned
            THEN [rows EXCEPT ![mp[i].key.n].order = mp[i].order]
            ELSE rows,
            owned, mp, i + 1)

\* the members of mp naming a row outside "owned"
Foreign(rows, owned, mp) ==
    Cardinality({i \in DOMAIN mp :
        mp[i].key.numeric /\ mp[i].key.n \in DOMAIN rows \ owned})

ModuleOrder(u, mp) ==
    LET r == UpdateOrders(module, ModulesOf(u), mp, 1) IN
    /\ u \in Users
    /\ module' = r.rows
    /\ Respond("ModuleOrder", u, Foreign(module, ModulesOf(u), mp),
               IF r.raised THEN "error" ELSE "ok", 0)
    /\ UNCHANGED <<course, content, item, nextId, students, pending>>

ContentOrder(u, mp) ==
    LET r == UpdateOrders(content, ContentsOf(u), mp, 1) IN
    /\ u \in Users
    /\ content' = r.rows
    /\ Respond("ContentOrder", u, Foreign(content, ContentsOf(u), mp),
               IF r.raised THEN "error" ELSE "ok", 0)
    /\ UNCHANGED <<course, module, item, nextId, students, pending>>

\* ------------------------------------------------------------ enrollment
\* the attributes of a Course instance: its fields and the reverse accessor
\* of Module.course.  No field or related_name "students" is declared.
CourseAttributes ==
    {"id", "owner", "subject", "title", "slug", "overview", "created",
     "modules"}

\* StudentEnrollCourseView: the form is valid when "course" names a stored
\* course; form_valid then evaluates self.course.students, which raises
\* AttributeError.  An invalid form is re-rendered, and the view names no
\* template: ImproperlyConfigured.
Enroll(u, c) ==
    /\ u \in Users
    /\ IF c \in DOMAIN course /\ "students" \in CourseAttributes
       THEN /\ students' = students \cup {<<u, c>>}
            /\ Respond("Enroll", u, c, "redirect", 0)
       ELSE /\ students' = students
            /\ Respond("Enroll", u, c, "error", 0)
    /\ UNCHANGED <<course, module, content, item, nextId, pending>>

\* ------------------------------------------------------------ requests
CourseRequests ==
    \E u \in Users \cup {Anonymous}, pk \in CourseIds, method \in Methods,
       valid \in BOOLEAN :
        \/ CourseCreate(u, valid)
        \/ CourseUpdate(u, pk, method, valid)
        \/ CourseDelete(u, pk, method)

ModuleRequests ==
    \/ \E u \in Users, pk \in CourseIds, method \in Methods,
          kind \in FormsetKinds, id \in ModuleIds :
            CourseModuleUpdate(u, pk, method, kind, id)
    \/ \E c \in CourseIds, o \in Orders : ModuleSave(c, o)

ContentRequests ==
    \E u \in Users :
        \/ \E m \in ModuleIds, name \in ModelNames, id \in {0} \cup ItemIds,
              method \in Methods, valid \in BOOLEAN :
                ContentCreateUpdate(u, m, name, id, method, valid)
        \/ \E id \in ContentIds : ContentDelete(u, id)

OrderRequests ==
    \E u \in Users :
        \/ \E mp \in Mappings(ModuleIds, Orders, MaxEntries) : ModuleOrder(u, mp)
        \/ \E mp \in Mappings(ContentIds, Orders, MaxEntries) : ContentOrder(u, mp)

EnrollRequests == \E u \in Users, c \in CourseIds : Enroll(u, c)

Next ==
    \/ CourseRequests
    \/ ModuleRequests
    \/ ContentRequests
    \/ OrderRequests
    \/ EnrollRequests

Spec == Init /\ [][Next]_vars

(***************************************************************************)
(* Spec is the whole program with every request atomic.  Its state space   *)
(* is the product of all tables and all requests; the properties below are *)
(* checked on the parts of it that decide them, each a specification over  *)
(* the same state with the handlers and the inputs the property is about.  *)
(***************************************************************************)

\* the course views and the enrollment view
CourseNext ==
    \/ CourseRequests
    \/ EnrollRequests

SpecCourse == Init /\ [][CourseNext]_vars

\* the handlers that write Module and Content rows, posted by the
\* instructors on courses of ann (the requests of bob are those the owner
\* filters turn away); mappings of one member reach every order the longer
\* ones do
OrderingNext ==
    \/ CourseCreate("ann", TRUE)
    \/ \E u \in Instructors, pk \in CourseIds : CourseDelete(u, pk, "POST")
    \/ \E u \in Instructors, pk \in CourseIds,
          kind \in {"add", "edit", "delete"}, id \in ModuleIds :
            CourseModuleUpdate(u, pk, "POST", kind, id)
    \/ \E c \in CourseIds, o \in Orders : ModuleSave(c, o)
    \/ \E u \in Instructors, m \in ModuleIds :
            ContentCreateUpdate(u, m, "text", 0, "POST", TRUE)
    \/ \E u \in Instructors :
        \E mp \in Mappings(ModuleIds, Orders, 1) : ModuleOrder(u, mp)
    \/ \E u \in Instructors :
        \E mp \in Mappings(ContentIds, Orders, 1) : ContentOrder(u, mp)

SpecOrdering == Init /\ [][OrderingNext]_vars

\* the content views, on modules added through the formset
ContentNext ==
    \/ \E u \in Instructors : CourseCreate(u, TRUE)
    \/ \E u \in Instructors, pk \in CourseIds :
            CourseModuleUpdate(u, pk, "POST", "add", 1)
    \/ ContentRequests

SpecContent == Init /\ [][ContentNext]_vars

\* the two reorder endpoints, on modules and contents of both instructors;
\* the submitted orders are the two ends of the range
ReorderNext ==
    \/ \E u \in Instructors : CourseCreate(u, TRUE)
    \/ \E u \in Instructors, pk \in CourseIds :
            CourseModuleUpdate(u, pk, "POST", "add", 1)
    \/ \E u \in Instructors, m \in ModuleIds :
            ContentCreateUpdate(u, m, "text", 0, "POST", TRUE)
    \/ \E u \in Instructors :
        \E mp \in Mappings(ModuleIds, {0, MaxOrder}, MaxEntries) :
            ModuleOrder(u, mp)
    \/ \E u \in Instructors :
        \E mp \in Mappings(ContentIds, {0, MaxOrder}, MaxEntries) :
            ContentOrder(u, mp)

SpecReorder == Init /\ [][ReorderNext]_vars

\* ------------------------------------------------------------ two workers
\* Two requests served at the same time.  Model.save() of a new row is two
\* statements: the SELECT of qs.latest("order") inside OrderField.pre_save,
\* and the INSERT carrying the value pre_save returned.  "seen" is the id
\* counter of the table at the SELECT: two saves with the same "seen" read
\* the table with no row inserted between their reads.

\* an INSERT that computes the order anew as it runs
PersistedOrderReread(w) ==
    pre_save(None, IF pending[w].kind = "module"
                   THEN ModuleScope(pending[w].scope)
                   ELSE ContentScope(pending[w].scope))

\* the order the INSERT of worker w carries: the value pre_save returned
PersistedOrder(w) == pending[w].order

\* CourseModuleUpdateView.post, formset.save() of one added form, up to and
\* including pre_save of the new module
BeginModuleAdd(w, u, pk) ==
    /\ ~pending[w].busy
    /\ pk \in {c \in DOMAIN course : course[c].owner = u}
    /\ pre_save(None, ModuleScope(pk)) <= MaxOrder
    /\ pending' = [pending EXCEPT ![w] =
                     [busy |-> TRUE, kind |-> "module", scope |-> pk,
                      order |-> pre_save(None, ModuleScope(pk)), oid |-> 0,
                      seen |-> nextId.module]]
    /\ UNCHANGED <<course, module, content, item, nextId, students, last>>

\* ... and from the INSERT on
FinishModuleAdd(w) ==
    /\ pending[w].busy /\ pending[w].kind = "module"
    /\ nextId.module <= MaxModules
    /\ module' = module @@ (nextId.module :>
                   [course |-> pending[w].scope, order |-> PersistedOrder(w)])
    /\ nextId' = [nextId EXCEPT !.module = @ + 1]
    /\ pending' = [pending EXCEPT ![w] = Idle]
    /\ Respond("CourseModuleUpdate", "", pending[w].scope, "redirect",
               nextId.module)
    /\ UNCHANGED <<course, content, item, students>>

\* ContentCreateUpdateView.post of a valid new text item, up to and including
\* obj.save() and pre_save of the new Content
BeginContentCreate(w, u, m) ==
    /\ ~pending[w].busy
    /\ m \in ModulesOf(u)
    /\ NextItemId("text") <= MaxItems
    /\ pre_save(None, ContentScope(m)) <= MaxOrder
    /\ item' = item @@ (<<"text", NextItemId("text")>> :>
                          [owner |-> u, rev |-> 0])
    /\ pending' = [pending EXCEPT ![w] =
                     [busy |-> TRUE, kind |-> "content", scope |-> m,
                      order |-> pre_save(None, ContentScope(m)),
                      oid |-> NextItemId("text"), seen |-> nextId.content]]
    /\ UNCHANGED <<course, module, content, nextId, students, last>>

\* ... and from the INSERT on
FinishContentCreate(w) ==
    /\ pending[w].busy /\ pending[w].kind = "content"
    /\ nextId.content <= MaxContents
    /\ content' = content @@ (nextId.content :>
                    [module |-> pending[w].scope, ctype |-> "text",
                     oid |-> pending[w].oid, order |-> PersistedOrder(w)])
    /\ nextId' = [nextId EXCEPT !.content = @ + 1]
    /\ pending' = [pending EXCEPT ![w] = Idle]
    /\ Respond("ContentCreateUpdate", "", pending[w].scope, "redirect",
               nextId.content)
    /\ UNCHANGED <<course, module, item, students>>

RaceNext ==
    \/ \E u \in Instructors : CourseCreate(u, TRUE)
    \/ \E w \in Workers, u \in Instructors, pk \in CourseIds :
            BeginModuleAdd(w, u, pk)
    \/ \E w \in Workers : FinishModuleAdd(w)
    \/ \E w \in Workers, u \in Instructors, m \in ModuleIds :
            BeginContentCreate(w, u, m)
    \/ \E w \in Workers : FinishContentCreate(w)

SpecRace == Init /\ [][RaceNext]_vars

(***************************************************************************)
(*                              Properties                                 *)
(***************************************************************************)

\* the owner of course pk is someone else than u
NotOwner(u, pk) == pk \in DOMAIN course /\ course[pk].owner # u

\* C4 (as claimed): enrollment of a logged-in user in an existing course
\* adds that user to the course's student set; enrolling the same pair again
\* leaves exactly that one membership.
C4_EnrollAddsStudent ==
    [][\A u \in Users, c \in CourseIds :
          (c \in DOMAIN course /\ Enroll(u, c)) =>
              /\ <<u, c>> \in students'
              /\ students' = students \cup {<<u, c>>}
              /\ last'.resp = "redirect"]_vars

\* C5 (as claimed): every user who is not the owner of a course and requests
\* its update or delete view receives a not-found response; the course is
\* not shown to them and is neither modified nor deleted.
C5_NonOwnerNotFound ==
    [][\A u \in Users, pk \in CourseIds, method \in Methods, valid \in BOOLEAN :
          (NotOwner(u, pk) /\ (\/ CourseUpdate(u, pk, method, valid)
                               \/ CourseDelete(u, pk, method))) =>
              /\ last'.resp = "notfound"
              /\ last'.obj = 0
              /\ course' = course]_vars

\* C5 (amended): a non-owner holding the view's permission receives a
\* not-found response, a non-owner lacking it a permission-denied response;
\* in both cases the course is not shown and is neither modified nor deleted.
C5_NonOwnerRefused ==
    [][\A u \in Users, pk \in CourseIds, method \in Methods, valid \in BOOLEAN :
          /\ (NotOwner(u, pk) /\ CourseUpdate(u, pk, method, valid)) =>
              /\ last'.resp = IF u \in Instructors THEN "notfound"
                              ELSE "forbidden"
              /\ last'.obj = 0
              /\ course' = course
          /\ (NotOwner(u, pk) /\ CourseDelete(u, pk, method)) =>
              /\ last'.resp = IF u \in Instructors THEN "notfound"
                              ELSE "forbidden"
              /\ last'.obj = 0
              /\ course' = course]_vars

\* C5 witness: an update or delete request for a stored course of another
\* instructor was answered not-found.
C5_Witness ==
    /\ last.op \in {"CourseUpdate", "CourseDelete"}
    /\ last.resp = "notfound"
    /\ last.user \in Instructors
    /\ NotOwner(last.user, last.id)

\* the item a stored content points to
ItemOf(k) == <<content[k].ctype, content[k].oid>>

\* C3 (as claimed): when the owner of the parent course posts a delete for a
\* stored Content record, afterwards neither the record nor its item exists.
C3_DeleteRemovesItemAndContent ==
    [][\A u \in Users, id \in ContentIds :
          (/\ id \in DOMAIN content
           /\ course[module[content[id].module].course].owner = u
           /\ ContentDelete(u, id)) =>
              /\ id \notin DOMAIN content'
              /\ ItemOf(id) \notin DOMAIN item']_vars

\* C8 (as claimed): a content create/update request whose content-type name
\* is none of text, video, image, file is answered not-found (or otherwise
\* rejected), never by an uncaught exception, and creates no item and no
\* Content record; for GET and POST, with and without an item id.
C8_UnknownModelRejected ==
    [][\A u \in Users, m \in ModuleIds, name \in ModelNames \ ContentModels,
          id \in {0} \cup ItemIds, method \in Methods, valid \in BOOLEAN :
          ContentCreateUpdate(u, m, name, id, method, valid) =>
              /\ last'.resp = "notfound"
              /\ content' = content
              /\ item' = item]_vars

\* C9 (as claimed): a content create request (no item id) with invalid form
\* input is answered with the form and its errors and leaves the store
\* unchanged.
C9_InvalidCreateShowsForm ==
    [][\A u \in Users, m \in ModuleIds, name \in ModelNames \cap ContentModels :
          (/\ m \in DOMAIN module
           /\ course[module[m].course].owner = u
           /\ ContentCreateUpdate(u, m, name, 0, "POST", FALSE)) =>
              /\ last'.resp = "ok"
              /\ content' = content
              /\ item' = item]_vars

\* v is 0 for an empty set of sibling orders, and else one more than the
\* largest of them
IsNextOrder(v, S) ==
    IF S = {} THEN v = 0 ELSE v - 1 \in S /\ \A x \in S : x < v

SiblingModules(c) == {m \in DOMAIN module : module[m].course = c}
SiblingContents(m) == {k \in DOMAIN content : content[k].module = m}

C2_SetOrderIsKept ==
    [][/\ \A c \in CourseIds, o \in Orders :
            (last'.op = "ModuleSave" /\ ModuleSave(c, o)) =>
                /\ module'[last'.obj].order = o
                /\ module'[last'.obj].course = c
       /\ \A u \in Users, pk \in CourseIds, id \in ModuleIds :
            (/\ last'.op = "CourseModuleUpdate"
             /\ last'.resp = "redirect"
             /\ CourseModuleUpdate(u, pk, "POST", "edit", id)) =>
                module'[id].order = module[id].order
       /\ \A m \in DOMAIN module \cap DOMAIN module' :
            module'[m].order # module[m].order => last'.op = "ModuleOrder"
       /\ \A k \in DOMAIN content \cap DOMAIN content' :
            content'[k].order # content[k].order
                => last'.op = "ContentOrder"]_vars

\* C2 witness: a module has just been saved with the explicit order 0 into
\* a course that holds a module of a larger order.
C2_Witness ==
    /\ last.op = "ModuleSave"
    /\ last.obj \in DOMAIN module
    /\ module[last.obj].order = 0
    /\ \E m \in SiblingModules(last.id) \ {last.obj} : module[m].order > 0

\* the rows of a table lying in a course of u
OwnedModule(u, m) ==
    m \in DOMAIN module /\ course[module[m].course].owner = u
OwnedContent(u, k) ==
    k \in DOMAIN content
        /\ course[module[content[k].module].course].owner = u

\* C6 (as claimed): the reorder endpoints apply every member of the posted
\* mapping on its own: each member naming a module (content) in a course of
\* the requester sets that row's order, whatever the other members name.
C6_EveryOwnedEntryApplied ==
    [][\A u \in Users :
        /\ \A mp \in Mappings(ModuleIds, {0, MaxOrder}, MaxEntries) :
            (last'.op = "ModuleOrder" /\ ModuleOrder(u, mp)) =>
                \A i \in DOMAIN mp :
                    (mp[i].key.numeric /\ OwnedModule(u, mp[i].key.n)) =>
                        module'[mp[i].key.n].order = mp[i].order
        /\ \A mp \in Mappings(ContentIds, {0, MaxOrder}, MaxEntries) :
            (last'.op = "ContentOrder" /\ ContentOrder(u, mp)) =>
                \A i \in DOMAIN mp :
                    (mp[i].key.numeric /\ OwnedContent(u, mp[i].key.n)) =>
                        content'[mp[i].key.n].order = mp[i].order]_vars

\* C10: a reorder request of user u changes no module and no content lying
\* in a course of somebody else.
C10_ForeignOrdersKept ==
    [][\A u \in Users :
        /\ \/ /\ \A m \in DOMAIN module :
                    ~OwnedModule(u, m) =>
                        m \in DOMAIN module' /\ module'[m] = module[m]
              /\ content' = content
           \/ ~(/\ last'.op = "ModuleOrder"
                /\ last'.user = u
                /\ \E mp \in Mappings(ModuleIds, {0, MaxOrder}, MaxEntries) :
                        ModuleOrder(u, mp))
        /\ \/ /\ \A k \in DOMAIN content :
                    ~OwnedContent(u, k) =>
                        k \in DOMAIN content' /\ content'[k] = content[k]
              /\ module' = module
           \/ ~(/\ last'.op = "ContentOrder"
                /\ last'.user = u
                /\ \E mp \in Mappings(ContentIds, {0, MaxOrder}, MaxEntries) :
                        ContentOrder(u, mp))]_vars

\* C10 witness: a reorder request naming a module of somebody else's course
\* and a module of the requester's has been served to the end, and has set
\* the order of the requester's module.
C10_Witness ==
    /\ last.op = "ModuleOrder"
    /\ last.resp = "ok"
    /\ last.id >= 1
    /\ \E m \in DOMAIN module :
          OwnedModule(last.user, m) /\ module[m].order = MaxOrder

\* two workers that both hold a value read for the same scope, with no row
\* inserted into the table between the two reads
ReadTogether(w1, w2) ==
    /\ w1 # w2
    /\ pending[w1].busy /\ pending[w2].busy
    /\ pending[w1].kind = pending[w2].kind
    /\ pending[w1].scope = pending[w2].scope
    /\ pending[w1].seen = pending[w2].seen

\* C7: two creations without explicit order in one scope, both having read
\* the largest order before either has inserted its row, are both stored
\* with the same order: they hold the same value, and each row is inserted
\* with the value its save has read.
C7_RacingSavesShareOrder ==
    [][/\ \A w1, w2 \in Workers :
            ReadTogether(w1, w2) => pending[w1].order = pending[w2].order
       /\ \A w \in Workers :
            /\ FinishModuleAdd(w) =>
                    module'[last'.obj].order = pending[w].order
            /\ FinishContentCreate(w) =>
                    content'[last'.obj].order = pending[w].order]_vars

\* C7 witness: the second of two racing formset saves has inserted its
\* module, and two modules of one course are stored with the same order.
C7_Witness ==
    /\ last.op = "CourseModuleUpdate"
    /\ \E m1, m2 \in DOMAIN module :
        /\ m1 # m2
        /\ m2 = last.obj
        /\ module[m1].course = module[m2].course
        /\ module[m1].order = module[m2].order

====
